---- MODULE Spec2Model ----
(***************************************************************************)
(* netlify-plugin-affiliate-link-monitor (src/index.js).                   *)
(*                                                                         *)
(* The plugin's onPostBuild handler scans the built HTML files for         *)
(* affiliate URLs, probes each distinct URL with retry, rewrites a broken  *)
(* URL to the fallback URL in the files that use it, prints a report and   *)
(* optionally fails the build.                                             *)
(*                                                                         *)
(* Text is a sequence of tokens.  One token stands for one lexical class   *)
(* of the regular expression of extractAffiliateLinks:                     *)
(*    "h"  the attribute prefix   href=                                    *)
(*    "q"  a quote character      " or '                                   *)
(*    "s"  a scheme               http:// or https://                      *)
(*    "p"  a piece of text that affiliatePattern matches                   *)
(*    "a"  any other character                                             *)
(* A URL is the token sequence between the quotes of an attribute.         *)
(***************************************************************************)
EXTENDS Integers, Sequences, FiniteSets, TLC

VARIABLES
  files,        \* file store: file name -> current text
  config,       \* { ...DEFAULTS, ...inputs }: fallbackUrl, retries, failOnBroken
  run,          \* which build this is: 1, or 2 for a second build over the output
  pc,           \* position of onPostBuild
  fileIdx,      \* index into htmlFiles of the extraction loop
  uniqueUrls,   \* allUrls in insertion order ([...allUrls])
  urlFileMap,   \* url -> sequence of file names
  urlIdx,       \* index into uniqueUrls of the checking loop
  i,            \* loop counter of checkUrlWithRetry
  lastResult,   \* lastResult of checkUrlWithRetry
  entry,        \* the entry under construction for the current url
  repIdx,       \* index into urlFileMap[url] of the rewrite loop
  results,      \* results array
  brokenCount,  \* brokenCount
  report,       \* what step 4 printed
  failed,       \* argument of utils.build.failBuild, when it was called
  invoked,      \* urls checkUrlWithRetry was called with, in call order
  log,          \* probes and waits of the checkUrlWithRetry call in progress
  io,           \* file reads and writes of the rewrite loops, in order
  before,       \* the file store when the rewrite loop in progress started
  prev,         \* end of the first build: its files and results
  orig,         \* the file store when onPostBuild was called
  request       \* the http request of the checkUrl call in progress and its promise

vars == <<files, config, run, pc, fileIdx, uniqueUrls, urlFileMap, urlIdx, i,
          lastResult, entry, repIdx, results, brokenCount, report, failed,
          invoked, log, io, before, prev, orig, request>>

----------------------------------------------------------------------------
(* Bounds of the model *)

\* largest number of href attributes in one generated page
MaxLinks == 2

\* largest configured number of retries
MaxRetries == 2

----------------------------------------------------------------------------
(* Sequences *)

Range(s) == { s[k] : k \in DOMAIN s }

\* s starts with t at index k
MatchAt(s, t, k) ==
  /\ k >= 1
  /\ k + Len(t) - 1 <= Len(s)
  /\ \A j \in 1..Len(t) : s[k + j - 1] = t[j]

\* t is a substring of s
Contains(s, t) == \E k \in 1..Len(s) : MatchAt(s, t, k)

RECURSIVE CountFrom(_, _, _)
CountFrom(s, t, k) ==
  IF k + Len(t) - 1 > Len(s) THEN 0
  ELSE IF MatchAt(s, t, k) THEN 1 + CountFrom(s, t, k + Len(t))
  ELSE CountFrom(s, t, k + 1)

\* number of occurrences of t in s, counted left to right without overlap
Count(s, t) == CountFrom(s, t, 1)

----------------------------------------------------------------------------
(* Inputs *)

NoValue == "undefined"

HtmlFiles == <<"a.html", "b.html">>

\* two affiliate urls, the first a prefix of the second
U1 == <<"s", "p">>
U2 == <<"s", "p", "p">>

Urls == {U1, U2}

Href(u) == <<"h", "q">> \o u \o <<"q">>

RECURSIVE PagesOf(_)
PagesOf(n) ==
  IF n = 0 THEN {<<>>}
  ELSE LET shorter == PagesOf(n - 1)
       IN  shorter \cup { p \o Href(u) : p \in shorter, u \in Urls }

Pages == PagesOf(MaxLinks)

\* a url that is no affiliate url, the affiliate url U1, and a bare scheme
Fallbacks == { <<"s", "a">>, U1, <<"s">> }

RetriesValues == -1 .. MaxRetries

\* what the network can answer to one HEAD request
Response(code, location) ==
  [kind |-> "response", statusCode |-> code, location |-> location, message |-> NoValue]

Location == <<"s", "a", "a">>

Responses ==
  { Response(200, NoValue), Response(302, Location),
    Response(301, NoValue), Response(500, NoValue) }

ErrorEvent == [kind |-> "error", statusCode |-> 0, location |-> NoValue, message |-> "ECONNREFUSED"]

TimeoutEvent == [kind |-> "timeout", statusCode |-> 0, location |-> NoValue, message |-> NoValue]

----------------------------------------------------------------------------
(* checkUrl: the outcome the promise resolves with *)

RedirectCodes == {301, 302, 303, 307, 308}

\* the response callback
OnResponse(statusCode, location) ==
  IF statusCode \in RedirectCodes /\ location # NoValue
  THEN [status |-> statusCode, redirectTo |-> location, ok |-> TRUE, error |-> NoValue]
  ELSE [status |-> statusCode, redirectTo |-> NoValue,
        ok |-> (statusCode >= 200 /\ statusCode < 400), error |-> NoValue]

\* req.on("error")
OnError(message) ==
  [status |-> 0, redirectTo |-> NoValue, ok |-> FALSE, error |-> message]

\* req.on("timeout")
OnTimeout ==
  [status |-> 0, redirectTo |-> NoValue, ok |-> FALSE, error |-> "timeout"]

checkUrl(ev) ==
  CASE ev.kind = "response" -> OnResponse(ev.statusCode, ev.location)
    [] ev.kind = "error"    -> OnError(ev.message)
    [] ev.kind = "timeout"  -> OnTimeout

----------------------------------------------------------------------------
(* checkUrlWithRetry *)

\* a variable that was declared and never assigned
Undefined == [undefined |-> TRUE]

BackoffBase == 1000

\* for (let i = 0; i <= retries; i++)
LoopContinues(k, retries) == k <= retries

\* a loop that goes on after an ok result
ReturnsNever(result) == FALSE

\* if (lastResult.ok) return lastResult
ReturnsAtOnce(result) == result.ok

\* if (i < retries) await ... setTimeout(r, 1000 * (i + 1))
WaitsBeforeRetry(k, retries) == k < retries

\* a delay that does not grow with the attempt
BackoffDelayFlat(k) == BackoffBase

BackoffDelay(k) == BackoffBase * (k + 1)

----------------------------------------------------------------------------
(* extractAffiliateLinks *)

RECURSIVE NextQuote(_, _)
NextQuote(html, k) ==
  IF k > Len(html) THEN 0
  ELSE IF html[k] = "q" THEN k
  ELSE NextQuote(html, k + 1)

\* re.exec from index k on: href= quote scheme [^quote]* pattern [^quote]* quote
RECURSIVE ExecFrom(_, _, _)
ExecFrom(html, pattern, k) ==
  IF k > Len(html) THEN <<>>
  ELSE LET j == NextQuote(html, k + 3)
       IN  IF /\ MatchAt(html, <<"h", "q", "s">>, k)
              /\ j # 0
              /\ \E t \in (k + 3)..(j - 1) : html[t] = pattern
           THEN <<SubSeq(html, k + 2, j - 1)>> \o ExecFrom(html, pattern, j + 1)
           ELSE ExecFrom(html, pattern, k + 1)

extractAffiliateLinks(html, pattern) == ExecFrom(html, pattern, 1)

----------------------------------------------------------------------------
(* onPostBuild: helpers *)

\* an array used where a Set is needed: every occurrence is added
AddUrlAgain(urls, url) == Append(urls, url)

\* a collection that puts a new url first
AddUrlFront(urls, url) ==
  IF url \in Range(urls) THEN urls ELSE <<url>> \o urls

\* allUrls.add(url): a Set keeps insertion order and ignores a second add
AddUrl(urls, url) ==
  IF url \in Range(urls) THEN urls ELSE Append(urls, url)

\* the url filed under the first html file, whatever file it was found in
PushFileFirst(map, url, file) ==
  IF url \in DOMAIN map
  THEN [map EXCEPT ![url] = Append(@, HtmlFiles[1])]
  ELSE [u \in DOMAIN map \cup {url} |-> IF u = url THEN <<HtmlFiles[1]>> ELSE map[u]]

\* if (!urlFileMap[url]) urlFileMap[url] = []; urlFileMap[url].push(file)
PushFile(map, url, file) ==
  IF url \in DOMAIN map
  THEN [map EXCEPT ![url] = Append(@, file)]
  ELSE [u \in DOMAIN map \cup {url} |-> IF u = url THEN <<file>> ELSE map[u]]

RECURSIVE IndexLinks(_, _, _)
IndexLinks(links, file, acc) ==
  IF links = <<>> THEN acc
  ELSE IndexLinks(Tail(links), file,
                  [urls |-> AddUrl(acc.urls, Head(links)),
                   map  |-> PushFile(acc.map, Head(links), file)])

\* html.split(url).join(fallbackUrl)
RECURSIVE SplitJoin(_, _, _, _)
SplitJoin(html, url, fallbackUrl, k) ==
  IF k > Len(html) THEN <<>>
  ELSE IF MatchAt(html, url, k)
  THEN fallbackUrl \o SplitJoin(html, url, fallbackUrl, k + Len(url))
  ELSE <<html[k]>> \o SplitJoin(html, url, fallbackUrl, k + 1)

\* the url cut out and nothing put in its place
ReplaceByNothing(html, url, fallbackUrl) == SplitJoin(html, url, <<>>, 1)

\* the result of split().join() dropped: strings are immutable
ReplaceDropped(html, url, fallbackUrl) == html

ReplaceAll(html, url, fallbackUrl) == SplitJoin(html, url, fallbackUrl, 1)

\* { url, ...result, filesUsing: urlFileMap[url].length, replaced: false }
MakeEntry(url, result, fileList) ==
  [url |-> url, status |-> result.status, redirectTo |-> result.redirectTo,
   ok |-> result.ok, error |-> result.error,
   filesUsing |-> Len(fileList), replaced |-> FALSE]

\* r.error || "HTTP " + r.status
Reason(r) == IF r.error # NoValue THEN <<r.error>> ELSE <<"HTTP ", r.status>>

\* a failure recognised by its status 0 only
ClassifyByStatus(result) ==
  IF result.status = 0 THEN "Broken" ELSE "Healthy"

\* a redirect taken for a failure
ClassifyNon200(result) ==
  IF ~result.ok \/ result.redirectTo # NoValue THEN "Broken" ELSE "Healthy"

\* the branch of the loop: broken, or ok with or without a redirect target
Classify(result) ==
  IF ~result.ok THEN "Broken"
  ELSE IF result.redirectTo # NoValue THEN "Redirected"
  ELSE "Healthy"

IsReplaced(r) == r.replaced

\* results.filter((r) => r.replaced) with the lines printed for each
ReplacedListing(rs, fallbackUrl) ==
  LET kept == SelectSeq(rs, IsReplaced)
  IN  [k \in DOMAIN kept |->
         [url |-> kept[k].url, reason |-> Reason(kept[k]),
          usedOn |-> kept[k].filesUsing, replacedWith |-> fallbackUrl]]

\* the listing printed from the last entry to the first
AllListingReversed(rs) ==
  [k \in DOMAIN rs |->
     [url |-> rs[Len(rs) + 1 - k].url, ok |-> rs[Len(rs) + 1 - k].ok,
      pages |-> rs[Len(rs) + 1 - k].filesUsing]]

\* for (const r of results): icon, url, pages
AllListing(rs) ==
  [k \in DOMAIN rs |-> [url |-> rs[k].url, ok |-> rs[k].ok, pages |-> rs[k].filesUsing]]

\* results.filter((r) => r.replaced).map((r) => `${r.url} (${reason})`)
BrokenList(rs) ==
  LET kept == SelectSeq(rs, IsReplaced)
  IN  [k \in DOMAIN kept |-> [url |-> kept[k].url, reason |-> Reason(kept[k])]]

\* the count forgotten
ShouldFailOnFlag(failOnBroken, count) == failOnBroken

\* if (config.failOnBroken && brokenCount > 0)
ShouldFail(failOnBroken, count) == failOnBroken /\ count > 0

NotCalled == [called |-> FALSE]

NoReport == [printed |-> FALSE]

NoEntry == [none |-> TRUE]

NoPrev == [none |-> TRUE]

\* no event of the request has fired yet
NoEvent == [kind |-> "none"]

\* new Promise(...) before resolve was called
Pending == [state |-> "pending"]

NoPromise == [state |-> "none"]

\* no checkUrl call is in progress
NoRequest == [inflight |-> {}, promise |-> NoPromise, first |-> NoEvent, late |-> FALSE]

\* a resolve that overwrites the value of a settled promise
ResolveAgain(promise, value) == [state |-> "resolved", value |-> value]

\* resolve(value): settles a pending promise, and does nothing to a settled one
Resolve(promise, value) ==
  IF promise.state = "pending"
  THEN [state |-> "resolved", value |-> value]
  ELSE promise

----------------------------------------------------------------------------
(* State after construction *)

AffiliatePattern == "p"

\* the run state a build starts with
Fresh ==
  /\ pc = "scan"
  /\ fileIdx = 1
  /\ uniqueUrls = <<>>
  /\ urlFileMap = [u \in {} |-> <<>>]
  /\ urlIdx = 1
  /\ i = 0
  /\ lastResult = Undefined
  /\ entry = NoEntry
  /\ repIdx = 1
  /\ results = <<>>
  /\ brokenCount = 0
  /\ report = NoReport
  /\ failed = NotCalled
  /\ invoked = <<>>
  /\ log = <<>>
  /\ io = <<>>
  /\ before = files
  /\ orig = files
  /\ request = NoRequest

Init ==
  /\ files \in [Range(HtmlFiles) -> Pages]
  /\ config \in [fallbackUrl : Fallbacks, retries : RetriesValues, failOnBroken : BOOLEAN]
  /\ run = 1
  /\ prev = NoPrev
  /\ Fresh

CurrentUrl == uniqueUrls[urlIdx]

----------------------------------------------------------------------------
(* 2. Extract all unique affiliate URLs and track which files use them *)

ScanFile ==
  /\ pc = "scan"
  /\ fileIdx <= Len(HtmlFiles)
  /\ LET file  == HtmlFiles[fileIdx]
         links == extractAffiliateLinks(files[file], AffiliatePattern)
         acc   == IndexLinks(links, file, [urls |-> uniqueUrls, map |-> urlFileMap])
     IN  /\ uniqueUrls' = acc.urls
         /\ urlFileMap' = acc.map
  /\ fileIdx' = fileIdx + 1
  /\ UNCHANGED <<files, config, run, pc, urlIdx, i, lastResult, entry, repIdx,
                 results, brokenCount, report, failed, invoked, log, io, before, prev, orig, request>>

\* if (uniqueUrls.length === 0) return
NoLinks ==
  /\ pc = "scan"
  /\ fileIdx > Len(HtmlFiles)
  /\ Len(uniqueUrls) = 0
  /\ pc' = "done"
  /\ UNCHANGED <<files, config, run, fileIdx, uniqueUrls, urlFileMap, urlIdx, i,
                 lastResult, entry, repIdx, results, brokenCount, report, failed,
                 invoked, log, io, before, prev, orig, request>>

StartChecks ==
  /\ pc = "scan"
  /\ fileIdx > Len(HtmlFiles)
  /\ Len(uniqueUrls) # 0
  /\ pc' = "loop"
  /\ UNCHANGED <<files, config, run, fileIdx, uniqueUrls, urlFileMap, urlIdx, i,
                 lastResult, entry, repIdx, results, brokenCount, report, failed,
                 invoked, log, io, before, prev, orig, request>>

----------------------------------------------------------------------------
(* 3. Check each unique URL *)

\* const result = await checkUrlWithRetry(url, config.timeoutMs, config.retries)
CallCheck ==
  /\ pc = "loop"
  /\ urlIdx <= Len(uniqueUrls)
  /\ invoked' = Append(invoked, CurrentUrl)
  /\ i' = 0
  /\ lastResult' = Undefined
  /\ log' = <<>>
  /\ pc' = "retry"
  /\ UNCHANGED <<files, config, run, fileIdx, uniqueUrls, urlFileMap, urlIdx,
                 entry, repIdx, results, brokenCount, report, failed, io, before, prev, orig, request>>

\* the first build's entry for url, when it checked url
PrevEntries(url) ==
  IF run = 2
  THEN { prev.results[k] : k \in { n \in DOMAIN prev.results : prev.results[n].url = url } }
  ELSE {}

\* a second build gets the answer the first build ended with for the same url
SameAnswer(url, outcome) ==
  \A e \in PrevEntries(url) :
     /\ outcome.ok = e.ok
     /\ outcome.status = e.status
     /\ outcome.redirectTo = e.redirectTo
     /\ outcome.error = e.error

\* lastResult = (the awaited outcome), and what the loop does with it
AfterAttempt(ev, outcome) ==
  /\ lastResult' = outcome
  /\ log' = Append(log, [kind |-> "probe", url |-> CurrentUrl, answer |-> ev, outcome |-> outcome])
  /\ IF ReturnsAtOnce(outcome)
     THEN pc' = "process" /\ i' = i
     ELSE IF WaitsBeforeRetry(i, config.retries)
     THEN pc' = "backoff" /\ i' = i
     ELSE pc' = "retry" /\ i' = i + 1
  /\ UNCHANGED <<files, config, run, fileIdx, uniqueUrls, urlFileMap, urlIdx,
                 entry, repIdx, results, brokenCount, report, failed, invoked,
                 io, before, prev, orig>>

\* lastResult = await checkUrl(url, timeoutMs) as one step: the request is
\* sent and the event ev settles it
Settle(ev) ==
  /\ pc = "retry"
  /\ LoopContinues(i, config.retries)
  /\ SameAnswer(CurrentUrl, checkUrl(ev))
  /\ AfterAttempt(ev, checkUrl(ev))
  /\ UNCHANGED request

GotResponse == \E ev \in Responses : Settle(ev)

GotError == Settle(ErrorEvent)

GotTimeout == Settle(TimeoutEvent)

\* checkUrl step by step.  The request of attempt i of the current url:
\* client.request(url, ...) and req.end() send it and return a pending promise
SendRequest ==
  /\ pc = "retry"
  /\ LoopContinues(i, config.retries)
  /\ request' = [inflight |-> request.inflight \cup {<<CurrentUrl, i>>},
                 promise  |-> Pending,
                 first    |-> NoEvent,
                 late     |-> FALSE]
  /\ pc' = "await"
  /\ UNCHANGED <<files, config, run, fileIdx, uniqueUrls, urlFileMap, urlIdx, i,
                 lastResult, entry, repIdx, results, brokenCount, report, failed,
                 invoked, log, io, before, prev, orig>>

\* an event of the request fires and its listener calls resolve; the first
\* event ends the flight, and one more event may follow it before the awaiting
\* loop goes on
Fire(ev) ==
  /\ pc = "await"
  /\ ~request.late
  /\ request.first = NoEvent => SameAnswer(CurrentUrl, checkUrl(ev))
  /\ request' = [inflight |-> request.inflight \ {<<CurrentUrl, i>>},
                 promise  |-> Resolve(request.promise, checkUrl(ev)),
                 first    |-> IF request.first = NoEvent THEN ev ELSE request.first,
                 late     |-> request.first # NoEvent]
  /\ UNCHANGED <<files, config, run, pc, fileIdx, uniqueUrls, urlFileMap, urlIdx, i,
                 lastResult, entry, repIdx, results, brokenCount, report, failed,
                 invoked, log, io, before, prev, orig>>

\* the response callback: only as the first event of a request
ResponseArrives ==
  /\ request.first = NoEvent
  /\ \E ev \in Responses : Fire(ev)

\* req.on("error"): as the first event, or after a response, or raised by
\* req.destroy() in the timeout listener
ErrorRaised ==
  /\ request.first.kind \in {"none", "response", "timeout"}
  /\ Fire(ErrorEvent)

\* req.on("timeout"): as the first event, or on the idle socket after a response
TimerFires ==
  /\ request.first.kind \in {"none", "response"}
  /\ Fire(TimeoutEvent)

\* the await goes on with the value of the settled promise
Resume ==
  /\ pc = "await"
  /\ request.promise.state = "resolved"
  /\ AfterAttempt(request.first, request.promise.value)
  /\ request' = NoRequest

\* await new Promise((r) => setTimeout(r, 1000 * (i + 1))), then i++
Backoff ==
  /\ pc = "backoff"
  /\ log' = Append(log, [kind |-> "wait", ms |-> BackoffDelay(i)])
  /\ i' = i + 1
  /\ pc' = "retry"
  /\ UNCHANGED <<files, config, run, fileIdx, uniqueUrls, urlFileMap, urlIdx,
                 lastResult, entry, repIdx, results, brokenCount, report, failed,
                 invoked, io, before, prev, orig, request>>

\* the loop is over: return lastResult
ReturnLast ==
  /\ pc = "retry"
  /\ ~LoopContinues(i, config.retries)
  /\ pc' = "process"
  /\ UNCHANGED <<files, config, run, fileIdx, uniqueUrls, urlFileMap, urlIdx, i,
                 lastResult, entry, repIdx, results, brokenCount, report, failed,
                 invoked, log, io, before, prev, orig, request>>

\* if (!result.ok) with result undefined: a TypeError leaves onPostBuild
ReadOfUndefined ==
  /\ pc = "process"
  /\ lastResult = Undefined
  /\ pc' = "threw"
  /\ UNCHANGED <<files, config, run, fileIdx, uniqueUrls, urlFileMap, urlIdx, i,
                 lastResult, entry, repIdx, results, brokenCount, report, failed,
                 invoked, log, io, before, prev, orig, request>>

\* the else branch, then results.push(entry)
MarkHealthy ==
  /\ pc = "process"
  /\ lastResult # Undefined
  /\ Classify(lastResult) # "Broken"
  /\ entry' = MakeEntry(CurrentUrl, lastResult, urlFileMap[CurrentUrl])
  /\ results' = Append(results, entry')
  /\ urlIdx' = urlIdx + 1
  /\ i' = 0
  /\ log' = <<>>
  /\ pc' = "loop"
  /\ UNCHANGED <<files, config, run, fileIdx, uniqueUrls, urlFileMap,
                 lastResult, repIdx, brokenCount, report, failed, invoked,
                 io, before, prev, orig, request>>

\* if (!result.ok) { brokenCount++; entry.replaced = true; ...
MarkBroken ==
  /\ pc = "process"
  /\ lastResult # Undefined
  /\ Classify(lastResult) = "Broken"
  /\ brokenCount' = brokenCount + 1
  /\ entry' = [MakeEntry(CurrentUrl, lastResult, urlFileMap[CurrentUrl])
                 EXCEPT !.replaced = TRUE]
  /\ repIdx' = 1
  /\ i' = 0
  /\ log' = <<>>
  /\ before' = files
  /\ pc' = "rewrite"
  /\ UNCHANGED <<files, config, run, fileIdx, uniqueUrls, urlFileMap, urlIdx,
                 lastResult, results, report, failed, invoked, io, prev, orig, request>>

\* one iteration of for (const file of urlFileMap[url])
RewriteFile ==
  /\ pc = "rewrite"
  /\ repIdx <= Len(urlFileMap[CurrentUrl])
  /\ LET file == urlFileMap[CurrentUrl][repIdx]
     IN  /\ files' = [files EXCEPT ![file] = ReplaceAll(@, CurrentUrl, config.fallbackUrl)]
         /\ io' = io \o << [op |-> "read",  url |-> CurrentUrl, file |-> file],
                           [op |-> "write", url |-> CurrentUrl, file |-> file] >>
  /\ repIdx' = repIdx + 1
  /\ UNCHANGED <<config, run, pc, fileIdx, uniqueUrls, urlFileMap, urlIdx, i,
                 lastResult, entry, results, brokenCount, report, failed, invoked,
                 log, before, prev, orig, request>>

\* an exception caught inside the rewrite loop, which then goes on
AfterIoErrorCaught == "rewrite"

\* no try/catch in onPostBuild: an exception of readFileSync or writeFileSync
\* leaves it
AfterIoError == "aborted"

\* fs.readFileSync(file, "utf-8") throws (a missing file, no permission)
ReadFails ==
  /\ pc = "rewrite"
  /\ repIdx <= Len(urlFileMap[CurrentUrl])
  /\ io' = Append(io, [op |-> "read-error", url |-> CurrentUrl,
                        file |-> urlFileMap[CurrentUrl][repIdx]])
  /\ pc' = AfterIoError
  /\ UNCHANGED <<files, config, run, fileIdx, uniqueUrls, urlFileMap, urlIdx, i,
                 lastResult, entry, repIdx, results, brokenCount, report, failed,
                 invoked, log, before, prev, orig, request>>

\* fs.writeFileSync(file, html) throws on opening the file (no permission, a
\* read-only directory): the file was read and is left as it was
WriteFails ==
  /\ pc = "rewrite"
  /\ repIdx <= Len(urlFileMap[CurrentUrl])
  /\ LET file == urlFileMap[CurrentUrl][repIdx]
     IN  io' = io \o << [op |-> "read",        url |-> CurrentUrl, file |-> file],
                        [op |-> "write-error", url |-> CurrentUrl, file |-> file] >>
  /\ pc' = AfterIoError
  /\ UNCHANGED <<files, config, run, fileIdx, uniqueUrls, urlFileMap, urlIdx, i,
                 lastResult, entry, repIdx, results, brokenCount, report, failed,
                 invoked, log, before, prev, orig, request>>

\* the rewrite loop is over: results.push(entry)
EndRewrite ==
  /\ pc = "rewrite"
  /\ repIdx > Len(urlFileMap[CurrentUrl])
  /\ results' = Append(results, entry)
  /\ urlIdx' = urlIdx + 1
  /\ pc' = "loop"
  /\ UNCHANGED <<files, config, run, fileIdx, uniqueUrls, urlFileMap, i,
                 lastResult, entry, repIdx, brokenCount, report, failed, invoked,
                 log, io, before, prev, orig, request>>

----------------------------------------------------------------------------
(* 4. Report, 5. Optionally fail build *)

Report ==
  /\ pc = "loop"
  /\ urlIdx > Len(uniqueUrls)
  /\ report' = [printed  |-> TRUE,
                checked  |-> Len(uniqueUrls),
                healthy  |-> Len(uniqueUrls) - brokenCount,
                broken   |-> brokenCount,
                replaced |-> IF brokenCount > 0
                             THEN ReplacedListing(results, config.fallbackUrl)
                             ELSE <<>>,
                all      |-> AllListing(results)]
  /\ pc' = "verdict"
  /\ UNCHANGED <<files, config, run, fileIdx, uniqueUrls, urlFileMap, urlIdx, i,
                 lastResult, entry, repIdx, results, brokenCount, failed, invoked,
                 log, io, before, prev, orig, request>>

FailBuild ==
  /\ pc = "verdict"
  /\ ShouldFail(config.failOnBroken, brokenCount)
  /\ failed' = [called |-> TRUE, count |-> brokenCount, list |-> BrokenList(results)]
  /\ pc' = "done"
  /\ UNCHANGED <<files, config, run, fileIdx, uniqueUrls, urlFileMap, urlIdx, i,
                 lastResult, entry, repIdx, results, brokenCount, report, invoked,
                 log, io, before, prev, orig, request>>

Return ==
  /\ pc = "verdict"
  /\ ~ShouldFail(config.failOnBroken, brokenCount)
  /\ pc' = "done"
  /\ UNCHANGED <<files, config, run, fileIdx, uniqueUrls, urlFileMap, urlIdx, i,
                 lastResult, entry, repIdx, results, brokenCount, report, failed,
                 invoked, log, io, before, prev, orig, request>>

----------------------------------------------------------------------------
(* A second build over the files the first build left, same configuration *)

Rebuild ==
  /\ pc = "done"
  /\ run = 1
  /\ run' = 2
  /\ prev' = [files |-> files, results |-> results]
  /\ pc' = "scan"
  /\ fileIdx' = 1
  /\ uniqueUrls' = <<>>
  /\ urlFileMap' = [u \in {} |-> <<>>]
  /\ urlIdx' = 1
  /\ i' = 0
  /\ lastResult' = Undefined
  /\ entry' = NoEntry
  /\ repIdx' = 1
  /\ results' = <<>>
  /\ brokenCount' = 0
  /\ report' = NoReport
  /\ failed' = NotCalled
  /\ invoked' = <<>>
  /\ log' = <<>>
  /\ io' = <<>>
  /\ before' = files
  /\ orig' = files
  /\ request' = NoRequest
  /\ UNCHANGED <<files, config>>

----------------------------------------------------------------------------

Next ==
  \/ ScanFile
  \/ NoLinks
  \/ StartChecks
  \/ CallCheck
  \/ GotResponse
  \/ GotError
  \/ GotTimeout
  \/ Backoff
  \/ ReturnLast
  \/ ReadOfUndefined
  \/ MarkHealthy
  \/ MarkBroken
  \/ RewriteFile
  \/ EndRewrite
  \/ Report
  \/ FailBuild
  \/ Return

\* one build
Spec == Init /\ [][Next]_vars

NextTwice == Next \/ Rebuild

\* one build, and possibly a second one over its output
SpecTwice == Init /\ [][NextTwice]_vars

NextEvents ==
  \/ ScanFile
  \/ NoLinks
  \/ StartChecks
  \/ CallCheck
  \/ SendRequest
  \/ ResponseArrives
  \/ ErrorRaised
  \/ TimerFires
  \/ Resume
  \/ Backoff
  \/ ReturnLast
  \/ ReadOfUndefined
  \/ MarkHealthy
  \/ MarkBroken
  \/ RewriteFile
  \/ EndRewrite
  \/ Report
  \/ FailBuild
  \/ Return

\* one build, with each checkUrl call taken event by event
SpecEvents == Init /\ [][NextEvents]_vars

NextIO == Next \/ ReadFails \/ WriteFails

\* one build in which file reads and writes of the repair may fail
SpecIO == Init /\ [][NextIO]_vars

----------------------------------------------------------------------------
(* Notions the properties use *)

\* how many times x occurs in the sequence seq
Times(seq, x) == Cardinality({ k \in DOMAIN seq : seq[k] = x })

\* every occurrence of u in html is a whole attribute value: quote u quote
OnlyWholeValues(html, u) ==
  \A k \in 1..Len(html) :
     MatchAt(html, u, k) =>
        /\ k > 1
        /\ html[k - 1] = "q"
        /\ k + Len(u) <= Len(html)
        /\ html[k + Len(u)] = "q"

\* the rewrite loop of the current (broken) url has rewritten its last file
RewriteDone == pc = "rewrite" /\ repIdx > Len(urlFileMap[CurrentUrl])

\* checkUrlWithRetry has returned to onPostBuild
Returned == pc = "process"

\* onPostBuild has checked every url
Checked == pc \in {"verdict", "done"}

MatchesPattern(url) == \E k \in DOMAIN url : url[k] = AffiliatePattern

----------------------------------------------------------------------------
(* C1: replacement completeness *)

\* C1 as stated: after the repair of a broken url U, no file that referenced U
\* contains U, and each contains the fallback url at least as often as U
\* occurred before, whatever the fallback url is.
C1_ReplacementComplete ==
  RewriteDone =>
    \A f \in Range(urlFileMap[CurrentUrl]) :
       /\ ~Contains(files[f], CurrentUrl)
       /\ Count(files[f], config.fallbackUrl) >= Count(before[f], CurrentUrl)

\* C1 amended: the same, for a fallback url that does not contain U and a file
\* in which U occurred only as a whole quoted attribute value.
C1_ReplacementCompleteAmended ==
  RewriteDone =>
    \A f \in Range(urlFileMap[CurrentUrl]) :
       (/\ ~Contains(config.fallbackUrl, CurrentUrl)
        /\ OnlyWholeValues(before[f], CurrentUrl))
       => /\ ~Contains(files[f], CurrentUrl)
          /\ Count(files[f], config.fallbackUrl) >= Count(before[f], CurrentUrl)

\* a broken url that stood twice in one file and once in the other is gone
\* from both
C1_Witness ==
  /\ RewriteDone
  /\ ~Contains(config.fallbackUrl, CurrentUrl)
  /\ \E f, g \in Range(urlFileMap[CurrentUrl]) :
        /\ f # g
        /\ OnlyWholeValues(before[f], CurrentUrl)
        /\ OnlyWholeValues(before[g], CurrentUrl)
        /\ Count(before[f], CurrentUrl) = 2
        /\ Count(before[g], CurrentUrl) = 1
        /\ ~Contains(files[f], CurrentUrl)
        /\ ~Contains(files[g], CurrentUrl)
        /\ Count(files[f], config.fallbackUrl) >= 2

----------------------------------------------------------------------------
(* C2: one check per distinct url *)

\* C2: checkUrlWithRetry is never called twice with the same url, and once
\* every url is checked it has been called exactly once with each extracted
\* url, however many occurrences and files the url has.
C2_CheckedOnce ==
  /\ \A u \in Range(invoked) : Times(invoked, u) = 1
  /\ Checked => \A u \in DOMAIN urlFileMap : Times(invoked, u) = 1

\* a url with three occurrences over two files, checked once
C2_Witness ==
  /\ pc = "done"
  /\ \E u \in DOMAIN urlFileMap :
        /\ Len(urlFileMap[u]) = 3
        /\ Cardinality(Range(urlFileMap[u])) = 2
        /\ Times(invoked, u) = 1

----------------------------------------------------------------------------
(* C3: the file list of a url *)

\* C3 as stated: the file list of a url holds each referencing file once, so
\* the page count of its entry is the number of distinct files.
C3_FilesListedOnce ==
  /\ \A u \in DOMAIN urlFileMap :
        Len(urlFileMap[u]) = Cardinality(Range(urlFileMap[u]))
  /\ \A k \in DOMAIN results :
        results[k].filesUsing = Cardinality(Range(urlFileMap[results[k].url]))

----------------------------------------------------------------------------
(* C4: one read and one write per file during the repair of a url *)

\* C4 as stated: during the repair of one broken url each file is read once
\* and written once.
C4_RewrittenOnce ==
  \A u \in DOMAIN urlFileMap : \A f \in Range(HtmlFiles) :
     /\ Times(io, [op |-> "read", url |-> u, file |-> f]) <= 1
     /\ Times(io, [op |-> "write", url |-> u, file |-> f]) <= 1

----------------------------------------------------------------------------
(* C5: retry bound *)

\* C5: when checkUrlWithRetry returns a failed outcome under retries >= 0, it
\* made retries + 1 probes, all failed, waited 1000 * k ms after the k-th of
\* them for k = 1..retries and not after the last, and the outcome returned
\* is the one of the last probe.
C5_RetryBound ==
  (Returned /\ config.retries >= 0 /\ ~lastResult.ok) =>
    LET r == config.retries
    IN  /\ Len(log) = 2 * r + 1
        /\ \A k \in 1..(r + 1) :
              /\ log[2 * k - 1].kind = "probe"
              /\ ~log[2 * k - 1].outcome.ok
        /\ \A k \in 1..r :
              /\ log[2 * k].kind = "wait"
              /\ log[2 * k].ms = 1000 * k
        /\ lastResult = log[2 * r + 1].outcome

\* three failed probes with different outcomes, two waits, the last returned
C5_Witness ==
  /\ Returned
  /\ config.retries = 2
  /\ ~lastResult.ok
  /\ Len(log) = 5
  /\ log[1].outcome # log[5].outcome
  /\ log[4].ms = 2000

----------------------------------------------------------------------------
(* C6: a redirect status without a location header *)

\* C6 as stated: a probe answered with a redirect status and no location
\* header has the outcome ok = false with that status, and a url whose final
\* outcome it is is treated as broken.
C6_BareRedirectIsBroken ==
  \A k \in DOMAIN log :
     (/\ log[k].kind = "probe"
      /\ log[k].answer.kind = "response"
      /\ log[k].answer.statusCode \in RedirectCodes
      /\ log[k].answer.location = NoValue)
     => /\ log[k].outcome.ok = FALSE
        /\ log[k].outcome.status = log[k].answer.statusCode
        /\ Classify(log[k].outcome) = "Broken"

----------------------------------------------------------------------------
(* C7: the link checker returns an outcome *)

\* C7 as stated: checkUrlWithRetry returns an outcome with a boolean ok for
\* every retries value, so that onPostBuild's read of result.ok never fails.
C7_AlwaysAnOutcome ==
  /\ pc # "threw"
  /\ Returned => (lastResult # Undefined /\ lastResult.ok \in BOOLEAN)

----------------------------------------------------------------------------
(* C8: a second build *)

\* C8 as stated: with a fallback url that does not match affiliatePattern, a
\* second build over the output of the first, given the same answers, extracts
\* no url that was broken in the first build and leaves every file as it was.
C8_SecondBuildIdle ==
  (run = 2 /\ ~MatchesPattern(config.fallbackUrl)) =>
    /\ files = prev.files
    /\ \A u \in Range(uniqueUrls) : \A k \in DOMAIN prev.results :
          prev.results[k].url = u => prev.results[k].ok

----------------------------------------------------------------------------
(* C9: the verdict *)

\* C9: failBuild is called exactly when the build ends with failOnBroken set
\* and brokenCount > 0, never with brokenCount = 0, and its payload lists
\* every broken url with the error detail, or "HTTP " and the status code.
C9_Verdict ==
  /\ failed.called => pc = "done"
  /\ pc = "done" => (failed.called <=> (config.failOnBroken /\ brokenCount > 0))
  /\ failed.called =>
       /\ failed.count = brokenCount
       /\ Len(failed.list) = Cardinality({ k \in DOMAIN results : ~results[k].ok })
       /\ \A k \in DOMAIN results :
            ~results[k].ok =>
               \E j \in DOMAIN failed.list :
                  /\ failed.list[j].url = results[k].url
                  /\ failed.list[j].reason =
                       IF results[k].error # NoValue
                       THEN <<results[k].error>>
                       ELSE <<"HTTP ", results[k].status>>

\* a failed build whose payload gives one reason as error detail and one as
\* HTTP status
C9_Witness ==
  /\ failed.called
  /\ brokenCount = 2
  /\ \E j, k \in DOMAIN failed.list :
        /\ failed.list[j].reason = <<"timeout">>
        /\ failed.list[k].reason = <<"HTTP ", 500>>

----------------------------------------------------------------------------
(* C10: healthy and redirected urls *)

----------------------------------------------------------------------------
(* C11: replaced and brokenCount *)

\* the entries that exist: those pushed, and the one of the rewrite loop in progress
Entries == IF pc = "rewrite" THEN Append(results, entry) ELSE results

\* C11: an entry has replaced = true exactly when the final outcome of its url
\* is broken (ok = false), and brokenCount is the number of entries with
\* replaced = true, the entry whose files are being rewritten included.
C11_ReplacedIffBroken ==
  /\ \A k \in DOMAIN Entries :
        /\ Entries[k].replaced <=> ~Entries[k].ok
        /\ Entries[k].replaced <=> (Classify(Entries[k]) = "Broken")
  /\ brokenCount = Cardinality({ k \in DOMAIN Entries : Entries[k].replaced })
  /\ Returned /\ lastResult # Undefined =>
        \A k \in DOMAIN results : results[k].url # CurrentUrl

\* a finished build with one broken and one healthy url
C11_Witness ==
  /\ pc = "done"
  /\ Len(results) = 2
  /\ brokenCount = 1
  /\ \E k \in DOMAIN results : results[k].replaced /\ ~results[k].ok
  /\ \E k \in DOMAIN results : ~results[k].replaced /\ results[k].ok

----------------------------------------------------------------------------
(* C12: one probe at a time, url after url, in first-seen order *)

\* seq without the later occurrences of its elements
RECURSIVE Dedup(_)
Dedup(seq) ==
  IF seq = <<>> THEN <<>>
  ELSE LET front == Dedup(SubSeq(seq, 1, Len(seq) - 1))
           x == seq[Len(seq)]
       IN  IF x \in Range(front) THEN front ELSE Append(front, x)

\* the links of the first n files of fs, in file order and text order
RECURSIVE LinksOf(_, _)
LinksOf(fs, n) ==
  IF n = 0 THEN <<>>
  ELSE LinksOf(fs, n - 1) \o extractAffiliateLinks(fs[HtmlFiles[n]], AffiliatePattern)

\* the distinct urls of the files the build started with, by first occurrence
FirstSeen == Dedup(LinksOf(orig, Len(HtmlFiles)))

\* checkUrlWithRetry is running for the current url
InCall == pc \in {"retry", "await", "backoff", "process"}

\* C12: at most one probe attempt is in flight at any moment; it is an attempt
\* for the url of the checkUrlWithRetry call in progress, and no attempt is in
\* flight during a backoff wait; a call starts only when every url before it
\* has its final entry; urls are checked in the order of their first
\* occurrence in the extraction pass.
C12_Serialized ==
  /\ Cardinality(request.inflight) <= 1
  /\ request.inflight # {} =>
        /\ pc = "await"
        /\ request.inflight = {<<CurrentUrl, i>>}
        /\ request.promise = Pending
  /\ pc = "backoff" => request.inflight = {}
  /\ \A k \in DOMAIN log : log[k].kind = "probe" => log[k].url = CurrentUrl
  /\ InCall =>
        /\ Len(invoked) = urlIdx
        /\ invoked[urlIdx] = CurrentUrl
        /\ Len(results) = urlIdx - 1
  /\ ~InCall /\ pc # "threw" => Len(Entries) = Len(invoked) /\ log = <<>>
  /\ \A k \in DOMAIN Entries : Entries[k].url = invoked[k]
  /\ invoked = SubSeq(uniqueUrls, 1, Len(invoked))
  /\ IF pc = "scan"
     THEN uniqueUrls = Dedup(LinksOf(orig, fileIdx - 1))
     ELSE uniqueUrls = FirstSeen

\* the third attempt for the second url is in flight; the first url, which
\* took three attempts, has its entry
C12_Witness ==
  /\ pc = "await"
  /\ urlIdx = 2
  /\ request.inflight = {<<uniqueUrls[2], 2>>}
  /\ Len(results) = 1
  /\ ~results[1].ok
  /\ config.retries = 2
  /\ Len(log) = 4

----------------------------------------------------------------------------
(* C13: every extracted url gets a final outcome *)

\* onPostBuild has ended: it returned, or an exception left it
Ended == pc \in {"done", "threw"}

\* checkUrlWithRetry was called with url and url has an entry in results
HasOutcome(url) ==
  /\ url \in Range(invoked)
  /\ \E k \in DOMAIN results : results[k].url = url

\* C13 as stated: with file reads and writes that succeed and probe attempts
\* that all settle, a build does not end before every distinct extracted url
\* was probed and has its final outcome, whatever the probes answer.
C13_EveryUrlGetsOutcome ==
  Ended => \A u \in Range(uniqueUrls) : HasOutcome(u)

----------------------------------------------------------------------------
(* C14: which files are written *)

\* the file f the build started with has a link to url
References(f, url) == url \in Range(extractAffiliateLinks(orig[f], AffiliatePattern))

\* the urls whose final outcome is broken
BrokenUrls == { Entries[k].url : k \in { n \in DOMAIN Entries : ~Entries[n].ok } }

\* C14: a file is written only for a url whose final outcome is broken and
\* that the file references; a file that references no such url (only healthy
\* or redirected urls, or no affiliate url) is never written and has the
\* content the build started with.
C14_OnlyBrokenWritten ==
  /\ \A n \in DOMAIN io :
        io[n].op = "write" =>
           /\ io[n].url \in BrokenUrls
           /\ References(io[n].file, io[n].url)
  /\ \A f \in Range(HtmlFiles) :
        (\A u \in BrokenUrls : ~References(f, u)) =>
           /\ files[f] = orig[f]
           /\ \A n \in DOMAIN io : io[n].file # f

\* a finished build that rewrote one file for a broken url and left alone the
\* other file, which links to a healthy url that has the broken url as a prefix
C14_Witness ==
  /\ pc = "done"
  /\ \E f, g \in Range(HtmlFiles) :
        /\ f # g
        /\ files[f] # orig[f]
        /\ \E n \in DOMAIN io : io[n].op = "write" /\ io[n].file = f /\ io[n].url = U1
        /\ References(g, U2)
        /\ ~References(g, U1)
        /\ U2 \notin BrokenUrls
        /\ files[g] = orig[g]

----------------------------------------------------------------------------
(* C15: failOnBroken and the repair *)

\* the file list of url, from the files the build started with: each of the
\* first n files once per link to url
RECURSIVE FilesOf(_, _)
FilesOf(url, n) ==
  IF n = 0 THEN <<>>
  ELSE FilesOf(url, n - 1) \o
       [k \in 1..Times(extractAffiliateLinks(orig[HtmlFiles[n]], AffiliatePattern), url)
           |-> HtmlFiles[n]]

\* fs after the rewrite loop of url over the file list fileList
RECURSIVE RepairIn(_, _, _)
RepairIn(fs, url, fileList) ==
  IF fileList = <<>> THEN fs
  ELSE RepairIn([fs EXCEPT ![Head(fileList)] = SplitJoin(@, url, config.fallbackUrl, 1)],
                url, Tail(fileList))

\* the file store as a function of the files the build started with, the
\* fallback url and the final outcomes of the first k urls; failOnBroken is
\* not an argument of it
RECURSIVE Repaired(_)
Repaired(k) ==
  IF k = 0 THEN orig
  ELSE IF results[k].ok THEN Repaired(k - 1)
  ELSE RepairIn(Repaired(k - 1), results[k].url, FilesOf(results[k].url, Len(HtmlFiles)))

\* every file of every broken url has been written for that url
AllRewritten ==
  \A k \in DOMAIN results :
     ~results[k].ok =>
        \A f \in Range(FilesOf(results[k].url, Len(HtmlFiles))) :
           \E n \in DOMAIN io :
              io[n].op = "write" /\ io[n].url = results[k].url /\ io[n].file = f

\* C15: the content of every file at the verdict and at the end of the build
\* is a function of the input files, the fallback url and the final outcomes
\* of the urls alone, so it is the same with failOnBroken true and false; and
\* when failBuild is called every url has its outcome and every rewrite for
\* every broken url is done.
C15_FlagDoesNotRepair ==
  /\ Checked => files = Repaired(Len(results))
  /\ Checked => Len(results) = Len(FirstSeen) /\ AllRewritten
  /\ failed # NotCalled =>
        /\ pc = "done"
        /\ config.failOnBroken
        /\ report.printed
        /\ failed.count = Cardinality(BrokenUrls)

\* failBuild was called after two broken urls were rewritten in both files
C15_Witness ==
  /\ failed # NotCalled
  /\ failed.count = 2
  /\ \A f \in Range(HtmlFiles) : files[f] # orig[f]
  /\ AllRewritten

----------------------------------------------------------------------------
(* C16: early stop on success *)

\* the probes of the checkUrlWithRetry call in progress, in order
Probes == SelectSeq(log, LAMBDA e : e.kind = "probe")

\* C16: an ok outcome is the last thing of its checkUrlWithRetry call: the
\* call returns it at once, with no probe and no wait after it; a call that
\* returns ok on attempt k made exactly k probes, the k - 1 before it failed
\* and each followed by its wait, and 1 <= k <= retries + 1.
C16_EarlyStop ==
  /\ \A n \in DOMAIN log :
        (log[n].kind = "probe" /\ log[n].outcome.ok) =>
           /\ n = Len(log)
           /\ Returned
           /\ lastResult = log[n].outcome
  /\ (Returned /\ lastResult # Undefined /\ lastResult.ok) =>
        LET k == Len(Probes)
        IN  /\ 1 <= k /\ k <= config.retries + 1
            /\ k = i + 1
            /\ Len(log) = 2 * k - 1
            /\ Probes[k].outcome = lastResult
            /\ \A n \in 1..(k - 1) :
                  /\ ~Probes[n].outcome.ok
                  /\ log[2 * n].kind = "wait"

\* success on the second attempt of three allowed: two probes, one wait
C16_Witness ==
  /\ Returned
  /\ config.retries = 2
  /\ lastResult # Undefined
  /\ lastResult.ok
  /\ Len(Probes) = 2
  /\ Len(log) = 3

----------------------------------------------------------------------------
(* C17: one outcome per probe attempt *)

\* C17: the promise of a probe attempt is settled by the first event of its
\* request and holds the outcome of that event from then on, whatever event
\* fires after it; the awaiting loop gets that outcome; an attempt whose first
\* event is the timeout yields ok = false, status 0, error "timeout".
C17_FirstEventWins ==
  /\ request.promise = Pending <=> (pc = "await" /\ request.first = NoEvent)
  /\ request.first # NoEvent =>
        /\ request.promise = [state |-> "resolved", value |-> checkUrl(request.first)]
        /\ request.first = TimeoutEvent =>
              /\ ~request.promise.value.ok
              /\ request.promise.value.status = 0
              /\ request.promise.value.error = "timeout"
  /\ \A n \in DOMAIN log :
        log[n].kind = "probe" =>
           /\ log[n].outcome = checkUrl(log[n].answer)
           /\ log[n].answer = TimeoutEvent =>
                 log[n].outcome = [status |-> 0, redirectTo |-> NoValue,
                                   ok |-> FALSE, error |-> "timeout"]
  /\ (pc \in {"backoff", "process"} /\ log # <<>>) =>
        lastResult = log[Len(log)].outcome

\* the request timed out, then req.destroy() raised an error: the promise
\* still holds the timeout outcome
C17_Witness ==
  /\ pc = "await"
  /\ request.first = TimeoutEvent
  /\ request.late
  /\ request.promise.state = "resolved"
  /\ request.promise.value.error = "timeout"

----------------------------------------------------------------------------
(* C18: the counts and listings of the report *)

\* the urls of a listing, in the order printed
UrlsOf(listing) == [k \in DOMAIN listing |-> listing[k].url]

\* C18: a build that extracted at least one url prints the report; in it
\* "checked" is the number of distinct extracted urls, healthy + broken =
\* checked with every ok url (redirected ones too) counted healthy, the
\* all-links listing has the urls in first-seen order and the replaced-links
\* listing has the broken ones in first-seen order.
C18_ReportCounts ==
  /\ (Checked /\ FirstSeen # <<>>) => report.printed
  /\ report.printed =>
        /\ report.checked >= 1
        /\ report.checked = Cardinality(Range(LinksOf(orig, Len(HtmlFiles))))
        /\ report.healthy + report.broken = report.checked
        /\ report.healthy = Cardinality({ k \in DOMAIN results : results[k].ok })
        /\ report.broken = Cardinality({ k \in DOMAIN results : ~results[k].ok })
        /\ UrlsOf(report.all) = FirstSeen
        /\ UrlsOf(report.replaced) = SelectSeq(FirstSeen, LAMBDA u : u \in BrokenUrls)
        /\ \A k \in DOMAIN report.all : report.all[k].ok = results[k].ok

\* a report of two urls, found in the order U2, U1: the first redirected and
\* counted healthy, the second broken
C18_Witness ==
  /\ report.printed
  /\ report.checked = 2
  /\ report.healthy = 1
  /\ report.broken = 1
  /\ UrlsOf(report.all) = <<U2, U1>>
  /\ UrlsOf(report.replaced) = <<U1>>
  /\ results[1].redirectTo # NoValue

----------------------------------------------------------------------------
(* C19: the other urls of a rewritten file *)

\* C19 as stated: at the end of a build every extracted url whose final
\* outcome is ok still stands, as a whole attribute value, at least as often
\* in every file as it did when the build started, also in a file that was
\* rewritten for a broken url that is a part of it.
C19_OtherUrlsIntact ==
  Checked =>
    \A k \in DOMAIN results :
       results[k].ok =>
          \A f \in Range(HtmlFiles) :
             Count(files[f], Href(results[k].url)) >= Count(orig[f], Href(results[k].url))

----------------------------------------------------------------------------
(* C20: a file error during the repair *)

\* a file read or write of the repair has failed
IoFailed == \E n \in DOMAIN io : io[n].op \in {"read-error", "write-error"}

\* C20: once a file read or write of the repair has failed, onPostBuild is
\* left: from then on no url is probed, no file is read or written, no entry,
\* report or verdict is produced.  The failing step leaves the file store as
\* it was, and the store then holds every rewrite completed before: those of
\* the earlier broken urls and those of the earlier files of the current url.
C20_IoErrorAborts ==
  /\ [](IoFailed =>
          /\ pc = "aborted"
          /\ report = NoReport
          /\ failed = NotCalled
          /\ io[Len(io)].op \in {"read-error", "write-error"}
          /\ \A n \in 1..(Len(io) - 1) : io[n].op \in {"read", "write"}
          /\ Len(results) = urlIdx - 1
          /\ files = RepairIn(Repaired(Len(results)), CurrentUrl,
                              SubSeq(urlFileMap[CurrentUrl], 1, repIdx - 1)))
  /\ [][IoFailed' => files' = files]_vars
  /\ [][IoFailed =>
          UNCHANGED <<files, io, invoked, request, log, results, report, failed>>]_vars

\* the write of the second file of the second broken url failed: the rewrites
\* of the first url and of the first file of the second url are in the store
C20_Witness ==
  /\ pc = "aborted"
  /\ io[Len(io)].op = "write-error"
  /\ Len(results) = 1
  /\ ~results[1].ok
  /\ repIdx = 2
  /\ \E n \in DOMAIN io : io[n].op = "write" /\ io[n].url = results[1].url
  /\ \E n \in DOMAIN io : io[n].op = "write" /\ io[n].url = CurrentUrl
  /\ files # orig

====
